---- MODULE Spec2Model ----
(***************************************************************************)
(* A model of the sprawl node: the order service (service/order.go) and    *)
(* the peer-to-peer transport (p2p/main.go).  Byte strings are modelled as *)
(* sequences of tokens, the storage collaborator as a key-value function,  *)
(* HMAC-SHA256 and signatures as collision-free symbolic terms.            *)
(***************************************************************************)
EXTENDS Integers, Sequences, FiniteSets, TLC

\* ------------------------------------------------------------------ bounds

\* The wall clock runs over 0..MaxTime ticks.
MaxTime == 1
\* Create calls per node.
MaxCreates == 2
\* Peers the discovery query yields to one node.
MaxDiscovered == 2
\* Streams opened in all.
MaxStreams == 1
\* Streams the tasks that call OpenStream open in all.
MaxWrites == 2
MaxOpened == 2

\* ---------------------------------------------------------------- constants

Node == {"A", "B"}

\* The node whose operations are called and whose discovery yields peers; the
\* other node is a peer that runs and accepts streams.
Clients == {"A"}
Channels == {"BTC,ETH", "ETH,BTC"}
Assets == {"ETH"}
CounterAssets == {"BTC"}
Amounts == {1}
Prices == {1}

OPEN == "OPEN"
LOCKED == "LOCKED"

\* interfaces.OrderPrefix, the entity prefix of order records.
OrderPrefix == "order-"

\* The HMAC key hard-coded in Create.
secret == "mysecret"

\* pb.CreateRequest
CreateRequests ==
    [channelID : Channels, asset : Assets, counterAsset : CounterAssets,
     amount : Amounts, price : Prices]

\* ------------------------------------------------------------ pure functions

\* ptypes.TimestampNow() at clock tick t; two ticks make a second.
TimestampNow(t) == [seconds |-> t \div 2, nanos |-> t % 2]

NoTimestamp == [seconds |-> 0, nanos |-> 0]

\* One field of a protobuf text rendering: proto3 leaves out a field that holds
\* its default value.
TextField(name, v, default) == IF v = default THEN <<>> ELSE << <<name, v>> >>

\* in.String() of a pb.CreateRequest.
RequestString(in) ==
    TextField("channelID", in.channelID, "") \o TextField("asset", in.asset, "")
    \o TextField("counterAsset", in.counterAsset, "")
    \o TextField("amount", in.amount, 0) \o TextField("price", in.price, 0)

\* now.String() of a timestamp.
TimestampString(ts) ==
    TextField("seconds", ts.seconds, 0) \o TextField("nanos", ts.nanos, 0)

\* hmac.New(sha256.New, key); h.Write(msg); h.Sum(nil): the digest is one token,
\* equal for equal (key, msg) and for nothing else.
HmacSha256(key, msg) == << [hmacKey |-> key, hmacMsg |-> msg] >>

\* A mutant of OrderId: the timestamp is left out of the HMAC input.
OrderIdWithoutTimestamp(in, now) == HmacSha256(secret, RequestString(in))

\* The id Create computes for request in at timestamp now.
OrderId(in, now) == HmacSha256(secret, RequestString(in) \o TimestampString(now))

OrderFields ==
    {"id", "created", "asset", "counterAsset", "amount", "price", "state", "signature"}

\* The zero value of pb.Order.
DefaultOrder ==
    [id |-> <<>>, created |-> NoTimestamp, asset |-> "", counterAsset |-> "",
     amount |-> 0, price |-> 0, state |-> OPEN, signature |-> <<>>]

\* proto.Marshal of a pb.Order: the fields that differ from their default.
Marshal(o) == [f \in {g \in OrderFields : o[g] # DefaultOrder[g]} |-> o[f]]

\* Bytes that are no encoding of anything.
Garbage == [invalid |-> TRUE]

IsEncoding(b) == "invalid" \notin DOMAIN b

\* proto.Unmarshal into a pb.Order: absent fields take their default.
Unmarshal(b) ==
    [f \in OrderFields |-> IF f \in DOMAIN b THEN b[f] ELSE DefaultOrder[f]]

\* The order Create constructs.
NewOrder(in, now) ==
    [id |-> OrderId(in, now), created |-> now, asset |-> in.asset,
     counterAsset |-> in.counterAsset, amount |-> in.amount, price |-> in.price,
     state |-> OPEN, signature |-> <<>>]

\* A mutant of CreateKey: the key carries the order prefix and the channel.
CreateKeyPrefixed(in, id) == <<OrderPrefix, in.channelID>> \o id

\* The storage key Create puts the order under: the bare id.
CreateKey(in, id) == id

\* getOrderStorageKey(channelID, orderID): prefix, channel, id.
getOrderStorageKey(channelID, orderID) == <<OrderPrefix, channelID>> \o orderID

\* getOrderQueryPrefix(channelID): prefix, channel.
getOrderQueryPrefix(channelID) == <<OrderPrefix, channelID>>

\* ------------------------------------------------------------------ storage

\* A store is a function from keys to values.
EmptyStore == << >>

Put(s, k, v) == [x \in (DOMAIN s) \cup {k} |-> IF x = k THEN v ELSE s[x]]

Has(s, k) == k \in DOMAIN s

Delete(s, k) == [x \in (DOMAIN s) \ {k} |-> s[x]]

HasPrefix(k, p) == Len(k) >= Len(p) /\ SubSeq(k, 1, Len(p)) = p

\* The keys a prefix scan yields.
ScanPrefix(s, p) == {k \in DOMAIN s : HasPrefix(k, p)}

\* ----------------------------------------------------------------- identity

PrivateKey(n) == n
PublicKey(n) == n

\* privateKey.Sign(bytes): a term only the key's holder can build.
Sign(priv, bytes) == << [signer |-> priv, signed |-> bytes] >>

\* publicKey.Verify(bytes, sig)
Verify(pub, sig, bytes) == sig = Sign(pub, bytes)

\* A mutant of SignedBytes: the signature covers the id only.
SignedBytesOfIdOnly(o) == Marshal([DefaultOrder EXCEPT !.id = o.id])

\* The bytes a signature covers: the order with its signature cleared and its
\* state set to OPEN (a signature computed on a LOCKED order verifies on the
\* same order in state OPEN, TestSignAndVerifyOrder).
SignedBytes(o) == Marshal([o EXCEPT !.signature = <<>>, !.state = OPEN])

\* orderService.GetSignature(order) on node n.
GetSignature(n, o) == Sign(PrivateKey(n), SignedBytes(o))

\* orderService.VerifyOrder(publicKey, order)
VerifyOrder(pub, o) == Verify(pub, o.signature, SignedBytes(o))

\* ------------------------------------------------------------- wire messages

Operations == {"CREATE", "DELETE", "LOCK", "UNLOCK"}

\* proto.Marshal of a pb.WireMessage.
WireBytes(op, channelID, data) == [operation |-> op, channelID |-> channelID, data |-> data]

\* The order a remote peer puts on the wire: the one Create builds for the
\* sample request at tick 0.
SampleRequest == [channelID |-> "ETH,BTC", asset |-> "ETH", counterAsset |-> "BTC",
                  amount |-> 1, price |-> 1]

SampleOrder(state) == [NewOrder(SampleRequest, TimestampNow(0)) EXCEPT !.state = state]

SignedBy(n, o) == [o EXCEPT !.signature = GetSignature(n, o)]

StateOfOperation(op) == IF op = "LOCK" THEN LOCKED ELSE OPEN

\* The byte strings that arrive from peer `origin`: every operation on the
\* sample order, signed by the origin or unsigned, and undecodable bytes.
WireMessagesFrom(origin) ==
    {WireBytes(op, SampleRequest.channelID, Marshal(SignedBy(origin, SampleOrder(StateOfOperation(op)))))
        : op \in Operations}
    \cup {WireBytes(op, SampleRequest.channelID, Marshal(SampleOrder(StateOfOperation(op))))
        : op \in Operations}
    \cup {Garbage}

\* ------------------------------------------------------ order service, pure

NotFoundError == "NotFoundError"
VerificationError == "VerificationError"
DecodeError == "DecodeError"
Ok == "ok"
Panic == "panic"
StorageError == "StorageError"

\* GetOrder(channelID, orderID) on store s: the result and the order read.
GetOrderOn(s, channelID, orderID) ==
    LET k == getOrderStorageKey(channelID, orderID) IN
    IF Has(s, k) /\ IsEncoding(s[k])
    THEN [res |-> Ok, out |-> {Unmarshal(s[k])}]
    ELSE [res |-> NotFoundError, out |-> {}]

\* GetAllOrders(channelID) on store s: the records under the channel's prefix,
\* by key.
GetAllOrdersOn(s, channelID) ==
    LET ks == ScanPrefix(s, getOrderQueryPrefix(channelID)) IN
    [k \in ks |-> Unmarshal(s[k])]

\* A mutant of ReceiveOn: a CREATE for a stored id is stored again under a
\* fresh key beside the old record instead of replacing it.
ReceiveAppending(s, raw, origin) ==
    IF ~IsEncoding(raw) THEN [res |-> DecodeError, store |-> s]
    ELSE IF ~IsEncoding(raw.data) THEN [res |-> DecodeError, store |-> s]
    ELSE LET o == Unmarshal(raw.data)
             k == getOrderStorageKey(raw.channelID, o.id)
         IN IF raw.operation = "DELETE" THEN [res |-> Ok, store |-> Delete(s, k)]
            ELSE IF ~VerifyOrder(PublicKey(origin), o)
                 THEN [res |-> VerificationError, store |-> s]
                 ELSE IF Has(s, k)
                      THEN [res |-> Ok, store |-> Put(s, k \o <<"dup">>, raw.data)]
                      ELSE [res |-> Ok, store |-> Put(s, k, raw.data)]

\* Receive(rawBytes, originPeerIdentity) on store s: decode, verify, upsert.
ReceiveOn(s, raw, origin) ==
    IF ~IsEncoding(raw) THEN [res |-> DecodeError, store |-> s]
    ELSE IF ~IsEncoding(raw.data) THEN [res |-> DecodeError, store |-> s]
    ELSE LET o == Unmarshal(raw.data)
             k == getOrderStorageKey(raw.channelID, o.id)
         IN IF raw.operation = "DELETE" THEN [res |-> Ok, store |-> Delete(s, k)]
            ELSE IF ~VerifyOrder(PublicKey(origin), o)
                 THEN [res |-> VerificationError, store |-> s]
                 ELSE [res |-> Ok, store |-> Put(s, k, raw.data)]

\* -------------------------------------------------------------------- state

VARIABLES
    clock,      \* the wall clock, in ticks
    storage,    \* storage[n]: node n's key-value store
    crashed,    \* crashed[n]: a panic has ended node n's process
    panicAt,    \* panicAt[n]: the call whose panic ended n's process, "" if none
    created,    \* created[n]: the Create calls that returned on n, in order
    onlyCreates,\* onlyCreates[n]: nothing but Create has written n's store
    last,       \* the last order-service call: arguments, result, store before
    run,        \* run[n]: where n's Run stands
    peerChan,   \* peerChan[n]: p2p.peerChan, the discovered peers not yet taken
    discovered, \* discovered[n]: peers discovery has yielded to n so far
    bcast,      \* bcast[n]: the SendToPeers call in progress on n, if any
    streams,    \* the streams opened so far, in order
    readers,    \* the read loops that are running
    registry,   \* registry[n]: p2p.streams, peer identity to stream
    tookSelf,   \* tookSelf[n]: the loops of n that have taken n's own identity
    sigCheck,   \* the order being signed, changed and verified
    tasks,      \* tasks[t]: where task t stands in its OpenStream or CloseStream call
    seeds       \* seeds[n][s]: n's connect attempts to seed peer s, where Run
                \* is followed step by step

svcVars == <<clock, storage, crashed, panicAt, created, onlyCreates, last>>

netVars == <<run, peerChan, discovered, bcast, streams, readers, registry, tookSelf>>

auxVars == <<sigCheck, tasks, seeds>>

vars == <<clock, storage, crashed, panicAt, created, onlyCreates, last,
          run, peerChan, discovered, bcast, streams, readers, registry, tookSelf,
          sigCheck, tasks, seeds>>

NoId == <<>>

\* An id no Create of the model computes.
UnknownId == HmacSha256("unknown", <<>>)

\* afterLock: the call before this one was a Lock of the same id on the same
\* node that returned success.  storageOk: the call's storage Put or Delete
\* returned no error.
NoCall ==
    [node |-> "", op |-> "none", channel |-> "", id |-> NoId, res |-> "",
     out |-> {}, arg |-> Garbage, origin |-> "", before |-> EmptyStore,
     afterLock |-> FALSE, storageOk |-> TRUE]

\* p2p.peerChan before findPeers: a nil channel.
NilChan == [made |-> FALSE, closed |-> FALSE, buf |-> <<>>]

\* One write to a stream: a message body, followed by the newline delimiter
\* or not.
Chunk(body, nl) == [body |-> body, nl |-> nl]

NoBroadcast == [active |-> FALSE, input |-> Chunk(Garbage, FALSE)]

\* The tasks that call OpenStream and CloseStream.
Tasks == {"t1", "t2"}

\* A task outside any call.  err: its last call, op, returned an error;
\* mapBefore and mapAfter: the node's peer-to-stream map when a failed
\* OpenStream began and when it returned.
IdleTask ==
    [pc |-> "idle", op |-> "", node |-> "", peer |-> "", stream |-> 0, err |-> FALSE,
     mapBefore |-> EmptyStore, mapAfter |-> EmptyStore]

\* config.BootstrapPeers: the seed peers every node is configured with.
BootstrapPeers == {"s1", "s2"}

\* A seed no goroutine has been started for.  started: the connect attempts
\* begun; result: how the attempt ended, "" while none has.
NoAttempt == [started |-> 0, result |-> ""]

\* No order signed yet.  original: the order as it was signed; order: the order
\* as it is now; verdict: what the last VerifyOrder returned, under key pub.
NoSigCheck ==
    [signer |-> "", original |-> DefaultOrder, order |-> DefaultOrder,
     pub |-> "", verdict |-> "none"]

Init ==
    /\ clock = 0
    /\ storage = [n \in Node |-> EmptyStore]
    /\ crashed = [n \in Node |-> FALSE]
    /\ panicAt = [n \in Node |-> ""]
    /\ created = [n \in Node |-> <<>>]
    /\ onlyCreates = [n \in Node |-> TRUE]
    /\ last = NoCall
    /\ run = [n \in Node |-> "idle"]
    /\ peerChan = [n \in Node |-> NilChan]
    /\ discovered = [n \in Node |-> 0]
    /\ bcast = [n \in Node |-> NoBroadcast]
    /\ streams = <<>>
    /\ readers = {}
    /\ registry = [n \in Node |-> EmptyStore]
    /\ tookSelf = [n \in Node |-> {}]
    /\ sigCheck = NoSigCheck
    /\ tasks = [t \in Tasks |-> IdleTask]
    /\ seeds = [n \in Node |-> [s \in BootstrapPeers |-> NoAttempt]]

\* The ids of the orders Create has returned on n.
CreatedIds(n) == {created[n][i].id : i \in 1..Len(created[n])}

\* The ids of the orders n's store holds, under whatever key.
StoredIds(n) ==
    {Unmarshal(storage[n][k]).id : k \in {x \in DOMAIN storage[n] : IsEncoding(storage[n][x])}}

\* The ids a client of n asks about: those of stored or created orders, and
\* one that is neither.
AskedIds(n) == CreatedIds(n) \cup StoredIds(n) \cup {UnknownId}

\* The clock advances.
Tick ==
    /\ clock < MaxTime
    /\ clock' = clock + 1
    /\ UNCHANGED <<storage, crashed, panicAt, created, onlyCreates, last>>
    /\ UNCHANGED netVars
    /\ UNCHANGED auxVars

\* OrderService.Create: the id, the order, Put under CreateKey; a failed Put
\* panics.
Create(n, in, putOk) ==
    /\ ~crashed[n]
    /\ Len(created[n]) < MaxCreates
    /\ LET now == TimestampNow(clock)
           order == NewOrder(in, now)
           call == [NoCall EXCEPT !.node = n, !.op = "Create", !.channel = in.channelID,
                                  !.id = order.id, !.before = storage[n]]
       IN IF putOk
          THEN /\ storage' = [storage EXCEPT ![n] = Put(@, CreateKey(in, order.id), Marshal(order))]
               /\ created' = [created EXCEPT ![n] = Append(@, [req |-> in, now |-> now, id |-> order.id])]
               /\ last' = [call EXCEPT !.res = Ok, !.out = {order}]
               /\ UNCHANGED <<crashed, panicAt>>
          ELSE /\ crashed' = [crashed EXCEPT ![n] = TRUE]
               /\ panicAt' = [panicAt EXCEPT ![n] = "Put"]
               /\ last' = [call EXCEPT !.res = Panic, !.storageOk = FALSE]
               /\ UNCHANGED <<storage, created>>
    /\ UNCHANGED <<clock, onlyCreates>>
    /\ UNCHANGED netVars
    /\ UNCHANGED auxVars

\* OrderService.Delete: storage.Delete(in.GetId()); a failed Delete panics.
DeleteOrder(n, id, delOk) ==
    /\ ~crashed[n]
    /\ LET call == [NoCall EXCEPT !.node = n, !.op = "Delete", !.id = id, !.before = storage[n]]
       IN IF delOk
          THEN /\ storage' = [storage EXCEPT ![n] = Delete(@, id)]
               /\ onlyCreates' = [onlyCreates EXCEPT ![n] = FALSE]
               /\ last' = [call EXCEPT !.res = Ok]
               /\ UNCHANGED <<crashed, panicAt>>
          ELSE /\ crashed' = [crashed EXCEPT ![n] = TRUE]
               /\ panicAt' = [panicAt EXCEPT ![n] = "Delete"]
               /\ last' = [call EXCEPT !.res = Panic, !.storageOk = FALSE]
               /\ UNCHANGED <<storage, onlyCreates>>
    /\ UNCHANGED <<clock, created>>
    /\ UNCHANGED netVars
    /\ UNCHANGED auxVars

\* OrderService.Lock: returns a response without an error; nothing else.
Lock(n, id) ==
    /\ ~crashed[n]
    /\ last' = [NoCall EXCEPT !.node = n, !.op = "Lock", !.id = id,
                              !.before = storage[n], !.res = Ok]
    /\ UNCHANGED <<clock, storage, crashed, panicAt, created, onlyCreates>>
    /\ UNCHANGED netVars
    /\ UNCHANGED auxVars

\* OrderService.Unlock: returns a response without an error; nothing else.
Unlock(n, id) ==
    /\ ~crashed[n]
    /\ last' = [NoCall EXCEPT !.node = n, !.op = "Unlock", !.id = id,
                              !.before = storage[n], !.res = Ok,
                              !.afterLock = (last.op = "Lock" /\ last.node = n
                                             /\ last.id = id /\ last.res = Ok)]
    /\ UNCHANGED <<clock, storage, crashed, panicAt, created, onlyCreates>>
    /\ UNCHANGED netVars
    /\ UNCHANGED auxVars

\* GetOrder(channelID, orderID)
GetOrder(n, channelID, id) ==
    /\ ~crashed[n]
    /\ LET r == GetOrderOn(storage[n], channelID, id)
       IN last' = [NoCall EXCEPT !.node = n, !.op = "GetOrder", !.channel = channelID,
                                 !.id = id, !.before = storage[n], !.res = r.res, !.out = r.out]
    /\ UNCHANGED <<clock, storage, crashed, panicAt, created, onlyCreates>>
    /\ UNCHANGED netVars
    /\ UNCHANGED auxVars

\* GetAllOrders(channelID)
GetAllOrders(n, channelID) ==
    /\ ~crashed[n]
    /\ LET r == GetAllOrdersOn(storage[n], channelID)
       IN last' = [NoCall EXCEPT !.node = n, !.op = "GetAllOrders", !.channel = channelID,
                                 !.before = storage[n], !.res = Ok,
                                 !.out = {r[k] : k \in DOMAIN r}]
    /\ UNCHANGED <<clock, storage, crashed, panicAt, created, onlyCreates>>
    /\ UNCHANGED netVars
    /\ UNCHANGED auxVars

\* Receive(rawBytes, originPeerIdentity) called on n's order service.
Receive(n, raw, origin) ==
    /\ ~crashed[n]
    /\ LET r == ReceiveOn(storage[n], raw, origin)
       IN /\ storage' = [storage EXCEPT ![n] = r.store]
          /\ last' = [NoCall EXCEPT !.node = n, !.op = "Receive", !.arg = raw, !.origin = origin,
                                    !.before = storage[n], !.res = r.res]
    /\ onlyCreates' = [onlyCreates EXCEPT ![n] = FALSE]
    /\ UNCHANGED <<clock, crashed, panicAt, created>>
    /\ UNCHANGED netVars
    /\ UNCHANGED auxVars

Next ==
    \/ Tick
    \/ \E n \in Clients, in \in CreateRequests, putOk \in BOOLEAN : Create(n, in, putOk)
    \/ \E n \in Clients, delOk \in BOOLEAN : \E id \in AskedIds(n) : DeleteOrder(n, id, delOk)
    \/ \E n \in Clients : \E id \in AskedIds(n) : Lock(n, id)
    \/ \E n \in Clients : \E id \in AskedIds(n) : Unlock(n, id)
    \/ \E n \in Clients, c \in Channels : \E id \in AskedIds(n) : GetOrder(n, c, id)
    \/ \E n \in Clients, c \in Channels : GetAllOrders(n, c)
    \/ \E n \in Clients : \E o \in Node \ {n} : \E raw \in WireMessagesFrom(o) : Receive(n, raw, o)

Spec == Init /\ [][Next]_vars

\* ---------------------------------------------------------------- transport

\* A peer accepts streams once its Run has set the stream handler.
CanAccept(p) == ~crashed[p] /\ run[p] # "idle"

\* host.NewStream(ctx, peer, protocol) from n: the stream record.  data: the
\* writes not yet read; sent: every write made on the stream, in order;
\* handler: the stream handler that accepted it, "" before; delivered: what
\* receiver.Receive was given from the stream, in order; lastResult: what
\* Receive returned for the last of these, "" before the first.
NewStream(from, to, via, data) ==
    [from |-> from, to |-> to, via |-> via, data |-> data, sent |-> data,
     state |-> "open", accepted |-> FALSE, handler |-> "", delivered |-> <<>>,
     lastResult |-> ""]

\* The byte strings a caller hands to SendToPeers on n: a CREATE envelope of
\* the sample order signed by n, with and without the closing newline, the
\* same envelope with the order unsigned, the CREATE envelopes of the orders n
\* has created, and undecodable bytes.
NetInputs(n) ==
    {Chunk(WireBytes("CREATE", SampleRequest.channelID, Marshal(SignedBy(n, SampleOrder(OPEN)))), nl)
        : nl \in BOOLEAN}
    \cup {Chunk(WireBytes("CREATE", SampleRequest.channelID, Marshal(SampleOrder(OPEN))), TRUE)}
    \cup {Chunk(WireBytes("CREATE", created[n][i].req.channelID,
                          Marshal(NewOrder(created[n][i].req, created[n][i].now))), TRUE)
            : i \in 1..Len(created[n])}
    \cup {Chunk(Garbage, TRUE)}

\* Run up to listenPeers: config, context, host, DHT, SetStreamHandler,
\* bootstrap, seed connects, advertise, findPeers; a failing step panics.
RunStart(n, setupOk) ==
    /\ ~crashed[n]
    /\ run[n] = "idle"
    /\ IF setupOk
       THEN /\ run' = [run EXCEPT ![n] = "listenPeers"]
            /\ peerChan' = [peerChan EXCEPT ![n] = [made |-> TRUE, closed |-> FALSE, buf |-> <<>>]]
            /\ UNCHANGED <<crashed, panicAt>>
       ELSE /\ crashed' = [crashed EXCEPT ![n] = TRUE]
            /\ panicAt' = [panicAt EXCEPT ![n] = "Run"]
            /\ UNCHANGED <<run, peerChan>>
    /\ UNCHANGED <<discovered, bcast, streams, readers, registry, tookSelf>>
    /\ UNCHANGED <<clock, storage, created, onlyCreates, last>>
    /\ UNCHANGED auxVars

\* The discovery query yields peer p on n's channel.
Discover(n, p) ==
    /\ ~crashed[n]
    /\ peerChan[n].made /\ ~peerChan[n].closed
    /\ discovered[n] < MaxDiscovered
    /\ peerChan' = [peerChan EXCEPT ![n].buf = Append(@, p)]
    /\ discovered' = [discovered EXCEPT ![n] = @ + 1]
    /\ UNCHANGED <<run, bcast, streams, readers, registry, tookSelf>>
    /\ UNCHANGED svcVars
    /\ UNCHANGED auxVars

\* The discovery query ends: its channel is closed.
CloseDiscovery(n) ==
    /\ ~crashed[n]
    /\ peerChan[n].made /\ ~peerChan[n].closed
    /\ peerChan' = [peerChan EXCEPT ![n].closed = TRUE]
    /\ UNCHANGED <<run, discovered, bcast, streams, readers, registry, tookSelf>>
    /\ UNCHANGED svcVars
    /\ UNCHANGED auxVars

\* A mutant of SkipPeer: no peer is skipped.
SkipNoPeer(n, p) == FALSE

\* peer.ID == host.ID(): the loops skip the node's own identity.
SkipPeer(n, p) == p = n

\* One iteration of listenPeers: take a peer, skip self, open a stream, start
\* readData on it.
ListenPeers(n, openOk) ==
    /\ ~crashed[n]
    /\ run[n] = "listenPeers"
    /\ peerChan[n].buf # <<>>
    /\ LET p == Head(peerChan[n].buf)
           opens == ~SkipPeer(n, p) /\ openOk /\ CanAccept(p)
       IN /\ opens => Len(streams) < MaxStreams
          /\ peerChan' = [peerChan EXCEPT ![n].buf = Tail(@)]
          /\ tookSelf' = IF p = n THEN [tookSelf EXCEPT ![n] = @ \cup {"listenPeers"}]
                                  ELSE tookSelf
          /\ IF opens
             THEN /\ streams' = Append(streams, NewStream(n, p, "listenPeers", <<>>))
                  /\ readers' = readers \cup
                        {[node |-> n, stream |-> Len(streams) + 1, kind |-> "readData",
                          side |-> "opener"]}
             ELSE UNCHANGED <<streams, readers>>
    /\ UNCHANGED <<run, discovered, bcast, registry>>
    /\ UNCHANGED svcVars
    /\ UNCHANGED auxVars

\* A mutant of AfterListenPeers: Run returns once listenPeers has returned.
ReturnAfterListenPeers == "returned"

\* Where Run is once listenPeers has returned: in select {}, which has no
\* case and blocks for ever.
AfterListenPeers == "select"

\* listenPeers returns when the channel is closed and drained; Run goes on to
\* its last statement.
ListenPeersEnd(n) ==
    /\ ~crashed[n]
    /\ run[n] = "listenPeers"
    /\ peerChan[n].closed /\ peerChan[n].buf = <<>>
    /\ run' = [run EXCEPT ![n] = AfterListenPeers]
    /\ UNCHANGED <<peerChan, discovered, bcast, streams, readers, registry, tookSelf>>
    /\ UNCHANGED svcVars
    /\ UNCHANGED auxVars

\* SendToPeers(input) is called on n.
SendToPeers(n, input) ==
    /\ ~crashed[n]
    /\ ~bcast[n].active
    /\ bcast' = [bcast EXCEPT ![n] = [active |-> TRUE, input |-> input]]
    /\ UNCHANGED <<run, peerChan, discovered, streams, readers, registry, tookSelf>>
    /\ UNCHANGED svcVars
    /\ UNCHANGED auxVars

\* One iteration of sendToPeers: take a peer, skip self, open a stream, write
\* the input; a failed write or flush panics in writeData.
SendToPeersStep(n, openOk, writeOk) ==
    /\ ~crashed[n]
    /\ bcast[n].active
    /\ peerChan[n].made
    /\ peerChan[n].buf # <<>>
    /\ LET p == Head(peerChan[n].buf)
           opens == ~SkipPeer(n, p) /\ openOk /\ CanAccept(p)
       IN /\ opens => Len(streams) < MaxStreams
          /\ peerChan' = [peerChan EXCEPT ![n].buf = Tail(@)]
          /\ tookSelf' = IF p = n THEN [tookSelf EXCEPT ![n] = @ \cup {"sendToPeers"}]
                                  ELSE tookSelf
          /\ IF opens
             THEN IF writeOk
                  THEN /\ streams' = Append(streams, NewStream(n, p, "sendToPeers", <<bcast[n].input>>))
                       /\ UNCHANGED <<crashed, panicAt>>
                  ELSE /\ streams' = Append(streams, NewStream(n, p, "sendToPeers", <<>>))
                       /\ crashed' = [crashed EXCEPT ![n] = TRUE]
                       /\ panicAt' = [panicAt EXCEPT ![n] = "writeData"]
             ELSE UNCHANGED <<streams, crashed, panicAt>>
    /\ UNCHANGED <<run, discovered, bcast, readers, registry>>
    /\ UNCHANGED <<clock, storage, created, onlyCreates, last>>
    /\ UNCHANGED auxVars

\* sendToPeers returns when the channel is closed and drained.
SendToPeersEnd(n) ==
    /\ ~crashed[n]
    /\ bcast[n].active
    /\ peerChan[n].made /\ peerChan[n].closed /\ peerChan[n].buf = <<>>
    /\ bcast' = [bcast EXCEPT ![n] = NoBroadcast]
    /\ UNCHANGED <<run, peerChan, discovered, streams, readers, registry, tookSelf>>
    /\ UNCHANGED svcVars
    /\ UNCHANGED auxVars

\* OpenStream(peerIDString) on n: on success the stream is put in p2p.streams
\* under the peer; on failure the error is logged and returned.
OpenStream(n, p, openOk) ==
    /\ ~crashed[n]
    /\ run[n] # "idle"
    /\ LET opens == openOk /\ CanAccept(p)
       IN /\ opens => Len(streams) < MaxStreams
          /\ IF opens
             THEN /\ streams' = Append(streams, NewStream(n, p, "OpenStream", <<>>))
                  /\ registry' = [registry EXCEPT ![n] = Put(@, p, Len(streams) + 1)]
             ELSE UNCHANGED <<streams, registry>>
    /\ UNCHANGED <<run, peerChan, discovered, bcast, readers, tookSelf>>
    /\ UNCHANGED svcVars
    /\ UNCHANGED auxVars

\* The inbound streams of p that no handler has been invoked for.
Unaccepted(p) ==
    {i \in 1..Len(streams) : streams[i].to = p /\ ~streams[i].accepted}

\* handleStream(stream), the function Run sets as stream handler: go readData.
handleStream(p, i) ==
    /\ ~crashed[p]
    /\ i \in Unaccepted(p)
    /\ streams' = [streams EXCEPT ![i].accepted = TRUE, ![i].handler = "handleStream"]
    /\ readers' = readers \cup
          {[node |-> p, stream |-> i, kind |-> "readData", side |-> "acceptor"]}
    /\ UNCHANGED <<run, peerChan, discovered, bcast, registry, tookSelf>>
    /\ UNCHANGED svcVars
    /\ UNCHANGED auxVars

\* (p2p *P2p) handleStream(buf): go stream.receiveStream(reader, p2p.Receiver).
P2pHandleStream(p, i) ==
    /\ ~crashed[p]
    /\ i \in Unaccepted(p)
    /\ streams' = [streams EXCEPT ![i].accepted = TRUE, ![i].handler = "P2p.handleStream"]
    /\ readers' = readers \cup
          {[node |-> p, stream |-> i, kind |-> "receiveStream", side |-> "acceptor"]}
    /\ UNCHANGED <<run, peerChan, discovered, bcast, registry, tookSelf>>
    /\ UNCHANGED svcVars
    /\ UNCHANGED auxVars

\* A mutant of FrameEnd: the read runs to the last delimiter written.
FrameEndAtLastDelimiter(data) ==
    IF \E k \in 1..Len(data) : data[k].nl
    THEN CHOOSE k \in 1..Len(data) : data[k].nl /\ \A j \in (k + 1)..Len(data) : ~data[j].nl
    ELSE 0

\* reader.ReadBytes('\n') has a whole frame to return: some write on the
\* stream ends with the delimiter.
FrameEnd(data) ==
    IF \E k \in 1..Len(data) : data[k].nl
    THEN CHOOSE k \in 1..Len(data) : data[k].nl /\ \A j \in 1..(k - 1) : ~data[j].nl
    ELSE 0

\* The frame's message bytes: one write's body, or the undecodable run of
\* several writes.
FrameBody(data) == IF FrameEnd(data) = 1 THEN data[1].body ELSE Garbage

\* The connection under stream i is lost, and the unread bytes with it.
StreamReset(i) ==
    /\ i \in 1..Len(streams)
    /\ streams[i].state = "open"
    /\ streams' = [streams EXCEPT ![i].state = "reset", ![i].data = <<>>]
    /\ UNCHANGED <<run, peerChan, discovered, bcast, readers, registry, tookSelf>>
    /\ UNCHANGED svcVars
    /\ UNCHANGED auxVars

\* One iteration of readData: a read error panics, a frame is printed.
readData(r) ==
    /\ r \in readers
    /\ r.kind = "readData"
    /\ ~crashed[r.node]
    /\ LET st == streams[r.stream]
       IN IF st.state # "open"
          THEN /\ crashed' = [crashed EXCEPT ![r.node] = TRUE]
               /\ panicAt' = [panicAt EXCEPT ![r.node] = "readData"]
               /\ readers' = readers \ {r}
               /\ UNCHANGED streams
          ELSE /\ r.side = "acceptor"
               /\ FrameEnd(st.data) > 0
               /\ streams' = [streams EXCEPT ![r.stream].data =
                                 SubSeq(st.data, FrameEnd(st.data) + 1, Len(st.data))]
               /\ UNCHANGED <<crashed, panicAt, readers>>
    /\ UNCHANGED <<run, peerChan, discovered, bcast, registry, tookSelf>>
    /\ UNCHANGED <<clock, storage, created, onlyCreates, last>>
    /\ UNCHANGED auxVars

\* One iteration of receiveStream: a read error ends the loop; a frame goes to
\* receiver.Receive, whose error ends the loop.
receiveStream(r) ==
    /\ r \in readers
    /\ r.kind = "receiveStream"
    /\ ~crashed[r.node]
    /\ LET st == streams[r.stream]
       IN IF st.state # "open"
          THEN /\ readers' = readers \ {r}
               /\ UNCHANGED <<streams, storage, onlyCreates>>
          ELSE /\ FrameEnd(st.data) > 0
               /\ LET got == ReceiveOn(storage[r.node], FrameBody(st.data), st.from)
                  IN /\ storage' = [storage EXCEPT ![r.node] = got.store]
                     /\ readers' = IF got.res = Ok THEN readers ELSE readers \ {r}
               /\ onlyCreates' = [onlyCreates EXCEPT ![r.node] = FALSE]
               /\ streams' = [streams EXCEPT
                     ![r.stream].data = SubSeq(st.data, FrameEnd(st.data) + 1, Len(st.data)),
                     ![r.stream].delivered = Append(@, FrameBody(st.data)),
                     ![r.stream].lastResult =
                         ReceiveOn(storage[r.node], FrameBody(st.data), st.from).res]
    /\ UNCHANGED <<run, peerChan, discovered, bcast, registry, tookSelf>>
    /\ UNCHANGED <<clock, crashed, panicAt, created, last>>
    /\ UNCHANGED auxVars

NetNext ==
    \/ \E n \in Node, setupOk \in BOOLEAN : RunStart(n, setupOk)
    \/ \E n \in Clients, p \in Node : Discover(n, p)
    \/ \E n \in Clients : CloseDiscovery(n)
    \/ \E n \in Clients, openOk \in BOOLEAN : ListenPeers(n, openOk)
    \/ \E n \in Clients : ListenPeersEnd(n)
    \/ \E n \in Clients : \E input \in NetInputs(n) : SendToPeers(n, input)
    \/ \E n \in Clients, openOk \in BOOLEAN, writeOk \in BOOLEAN : SendToPeersStep(n, openOk, writeOk)
    \/ \E n \in Clients : SendToPeersEnd(n)
    \/ \E n \in Clients, p \in Node, openOk \in BOOLEAN : OpenStream(n, p, openOk)
    \/ \E p \in Node : \E i \in Unaccepted(p) : handleStream(p, i)
    \/ \E p \in Node : \E i \in Unaccepted(p) : P2pHandleStream(p, i)
    \/ \E i \in 1..Len(streams) : StreamReset(i)
    \/ \E r \in readers : readData(r)
    \/ \E r \in readers : receiveStream(r)

NetSpec == Init /\ [][NetNext]_vars

\* Two nodes that reach each other: every stream opens, every write succeeds,
\* no connection is lost, no storage call fails.  A's clients create orders.
FairNext ==
    \/ Tick
    \/ \E n \in Clients, in \in CreateRequests : Create(n, in, TRUE)
    \/ \E n \in Node : RunStart(n, TRUE)
    \/ \E n \in Clients, p \in Node : Discover(n, p)
    \/ \E n \in Clients : CloseDiscovery(n)
    \/ \E n \in Clients : ListenPeers(n, TRUE)
    \/ \E n \in Clients : ListenPeersEnd(n)
    \/ \E n \in Clients : \E input \in NetInputs(n) : SendToPeers(n, input)
    \/ \E n \in Clients : SendToPeersStep(n, TRUE, TRUE)
    \/ \E n \in Clients : SendToPeersEnd(n)
    \/ \E p \in Node : \E i \in Unaccepted(p) : handleStream(p, i)
    \/ \E p \in Node : \E i \in Unaccepted(p) : P2pHandleStream(p, i)
    \/ \E r \in readers : readData(r)
    \/ \E r \in readers : receiveStream(r)

\* What the scheduler and the discovery query keep doing: Run, the loops over
\* the peer channel, the stream handlers and every read loop take their step
\* when they can.  Calls by clients (Create, SendToPeers) are not forced.
Fairness ==
    /\ \A n \in Node : WF_vars(RunStart(n, TRUE))
    /\ \A n \in Clients : WF_vars(ListenPeers(n, TRUE))
    /\ \A n \in Clients : WF_vars(ListenPeersEnd(n))
    /\ \A n \in Clients : WF_vars(SendToPeersStep(n, TRUE, TRUE))
    /\ \A n \in Clients : WF_vars(SendToPeersEnd(n))
    /\ \A p \in Node :
          WF_vars(\E i \in Unaccepted(p) : handleStream(p, i) \/ P2pHandleStream(p, i))
    /\ \A p \in Node :
          WF_vars(\E r \in readers : r.node = p /\ (readData(r) \/ receiveStream(r)))

FairSpec == Init /\ [][FairNext]_vars /\ Fairness

\* ----------------------------------------------- the peer-to-stream map

\* Task u of the same node is inside a write of p2p.streams.
Writing(u) == tasks[u].pc \in {"inserting", "deleting"}

\* Another task of t's node is inside a write of p2p.streams while t accesses
\* the map: a data race.
Racing(n, t) == \E u \in Tasks \ {t} : tasks[u].node = n /\ Writing(u)

\* A mutant of FailedOpen: a failed open drops the entry the peer had.
FailedOpenDropsEntry(reg, p) == Delete(reg, p)

\* The peer-to-stream map after host.NewStream has failed for p: the error
\* branch logs and does not touch the map.
FailedOpen(reg, p) == reg

\* OpenStream(p) called by task t on n, up to the map write: host.NewStream
\* returns a stream, or an error that is logged and returned.
OpenStreamCall(t, n, p, openOk) ==
    /\ ~crashed[n]
    /\ run[n] # "idle"
    /\ tasks[t].pc = "idle"
    /\ LET opens == openOk /\ CanAccept(p)
       IN /\ opens => Len(streams) < MaxOpened
          /\ IF opens
             THEN /\ streams' = Append(streams, NewStream(n, p, "OpenStream", <<>>))
                  /\ tasks' = [tasks EXCEPT ![t] =
                        [IdleTask EXCEPT !.pc = "insert", !.op = "OpenStream", !.node = n,
                                         !.peer = p, !.stream = Len(streams) + 1]]
                  /\ UNCHANGED registry
             ELSE /\ registry' = [registry EXCEPT ![n] = FailedOpen(@, p)]
                  /\ tasks' = [tasks EXCEPT ![t] =
                        [IdleTask EXCEPT !.op = "OpenStream", !.node = n, !.peer = p,
                                         !.err = TRUE,
                                         !.mapBefore = registry[n],
                                         !.mapAfter = registry'[n]]]
                  /\ UNCHANGED streams
    /\ UNCHANGED <<run, peerChan, discovered, bcast, readers, tookSelf>>
    /\ UNCHANGED <<svcVars, sigCheck, seeds>>

\* p2p.streams[peerIDString] = Stream{...}: the map write begins.
MapInsertBegin(t) ==
    /\ tasks[t].pc = "insert"
    /\ ~crashed[tasks[t].node]
    /\ tasks' = [tasks EXCEPT ![t].pc = "inserting"]
    /\ UNCHANGED <<svcVars, netVars, sigCheck, seeds>>

\* The map write ends: the entry for the peer is the new stream.  A write
\* that ran beside another write either goes through or is caught by the
\* runtime (fatal error: concurrent map writes).
MapInsertEnd(t, caught) ==
    /\ tasks[t].pc = "inserting"
    /\ ~crashed[tasks[t].node]
    /\ LET n == tasks[t].node
       IN IF caught
          THEN /\ Racing(n, t)
               /\ crashed' = [crashed EXCEPT ![n] = TRUE]
               /\ panicAt' = [panicAt EXCEPT ![n] = "concurrent map writes"]
               /\ UNCHANGED <<registry, tasks>>
          ELSE /\ registry' = [registry EXCEPT ![n] = Put(@, tasks[t].peer, tasks[t].stream)]
               /\ tasks' = [tasks EXCEPT ![t] = IdleTask]
               /\ UNCHANGED <<crashed, panicAt>>
    /\ UNCHANGED <<clock, storage, created, onlyCreates, last>>
    /\ UNCHANGED <<run, peerChan, discovered, bcast, streams, readers, tookSelf>>
    /\ UNCHANGED <<sigCheck, seeds>>

\* CloseStream(p) called by task t on n, up to the delete:
\* p2p.streams[peerIDString].stream.Close().  For a peer without an entry the
\* map yields the zero Stream, whose stream is nil: the call panics.
CloseStreamCall(t, n, p) ==
    /\ ~crashed[n]
    /\ run[n] # "idle"
    /\ tasks[t].pc = "idle"
    /\ IF Has(registry[n], p)
       THEN /\ streams' = [streams EXCEPT ![registry[n][p]].state = "closed",
                                          ![registry[n][p]].data = <<>>]
            /\ tasks' = [tasks EXCEPT ![t] =
                  [IdleTask EXCEPT !.pc = "delete", !.op = "CloseStream", !.node = n,
                                   !.peer = p, !.stream = registry[n][p],
                                   !.err = streams[registry[n][p]].state # "open"]]
            /\ UNCHANGED <<crashed, panicAt>>
       ELSE /\ crashed' = [crashed EXCEPT ![n] = TRUE]
            /\ panicAt' = [panicAt EXCEPT ![n] = "CloseStream"]
            /\ UNCHANGED <<streams, tasks>>
    /\ UNCHANGED <<clock, storage, created, onlyCreates, last>>
    /\ UNCHANGED <<run, peerChan, discovered, bcast, readers, registry, tookSelf>>
    /\ UNCHANGED <<sigCheck, seeds>>

\* delete(p2p.streams, peerIDString): the map write begins.
MapDeleteBegin(t) ==
    /\ tasks[t].pc = "delete"
    /\ ~crashed[tasks[t].node]
    /\ tasks' = [tasks EXCEPT ![t].pc = "deleting"]
    /\ UNCHANGED <<svcVars, netVars, sigCheck, seeds>>

\* The delete ends: the peer has no entry.  CloseStream returns Close's error.
MapDeleteEnd(t, caught) ==
    /\ tasks[t].pc = "deleting"
    /\ ~crashed[tasks[t].node]
    /\ LET n == tasks[t].node
       IN IF caught
          THEN /\ Racing(n, t)
               /\ crashed' = [crashed EXCEPT ![n] = TRUE]
               /\ panicAt' = [panicAt EXCEPT ![n] = "concurrent map writes"]
               /\ UNCHANGED <<registry, tasks>>
          ELSE /\ registry' = [registry EXCEPT ![n] = Delete(@, tasks[t].peer)]
               /\ tasks' = [tasks EXCEPT ![t] = [IdleTask EXCEPT !.op = tasks[t].op, !.err = tasks[t].err]]
               /\ UNCHANGED <<crashed, panicAt>>
    /\ UNCHANGED <<clock, storage, created, onlyCreates, last>>
    /\ UNCHANGED <<run, peerChan, discovered, bcast, streams, readers, tookSelf>>
    /\ UNCHANGED <<sigCheck, seeds>>

RegNext ==
    \/ \E n \in Node : RunStart(n, TRUE)
    \/ \E t \in Tasks, n \in Clients, p \in Node, openOk \in BOOLEAN : OpenStreamCall(t, n, p, openOk)
    \/ \E t \in Tasks : MapInsertBegin(t)
    \/ \E t \in Tasks, caught \in BOOLEAN : MapInsertEnd(t, caught)
    \/ \E t \in Tasks, n \in Clients, p \in Node : CloseStreamCall(t, n, p)
    \/ \E t \in Tasks : MapDeleteBegin(t)
    \/ \E t \in Tasks, caught \in BOOLEAN : MapDeleteEnd(t, caught)

RegSpec == Init /\ [][RegNext]_vars

\* ------------------------------------------------- several frames per stream

\* The byte strings n writes to a stream it has opened: the CREATE and DELETE
\* envelopes of the sample order signed by n, the CREATE envelope of the
\* unsigned order, and the signed CREATE envelope without its closing newline.
StreamInputs(n) ==
    {Chunk(WireBytes(op, SampleRequest.channelID,
                     Marshal(SignedBy(n, SampleOrder(StateOfOperation(op))))), TRUE)
        : op \in {"CREATE", "DELETE"}}
    \cup {Chunk(WireBytes("CREATE", SampleRequest.channelID, Marshal(SampleOrder(OPEN))), TRUE)}
    \cup {Chunk(WireBytes("CREATE", SampleRequest.channelID,
                          Marshal(SignedBy(n, SampleOrder(OPEN)))), FALSE)}

\* The writes made on the first k streams.
RECURSIVE WritesMade(_)
WritesMade(k) == IF k = 0 THEN 0 ELSE Len(streams[k].sent) + WritesMade(k - 1)

\* stream.writeToStream(data) on the stream n has registered for p: Write and
\* Flush put the bytes on the stream after those written before.
writeToStream(n, p, input) ==
    /\ ~crashed[n]
    /\ Has(registry[n], p)
    /\ LET i == registry[n][p]
       IN /\ streams[i].state = "open"
          /\ WritesMade(Len(streams)) < MaxWrites
          /\ streams' = [streams EXCEPT ![i].data = Append(@, input),
                                        ![i].sent = Append(@, input)]
    /\ UNCHANGED <<run, peerChan, discovered, bcast, readers, registry, tookSelf>>
    /\ UNCHANGED svcVars
    /\ UNCHANGED auxVars

StreamNext ==
    \/ \E n \in Node : RunStart(n, TRUE)
    \/ \E n \in Clients, p \in Node, openOk \in BOOLEAN : OpenStream(n, p, openOk)
    \/ \E n \in Clients, p \in Node : \E input \in StreamInputs(n) : writeToStream(n, p, input)
    \/ \E p \in Node : \E i \in Unaccepted(p) : handleStream(p, i)
    \/ \E p \in Node : \E i \in Unaccepted(p) : P2pHandleStream(p, i)
    \/ \E i \in 1..Len(streams) : StreamReset(i)
    \/ \E r \in readers : readData(r)
    \/ \E r \in readers : receiveStream(r)

StreamSpec == Init /\ [][StreamNext]_vars

\* ------------------------------------------------------- Run, step by step

\* The positions of Run from the first advertisement on.
PastSeedConnects == {"advertise", "findPeers", "listenPeers", "select"}

\* Run up to getPeerAddresses: config, context, host, DHT, SetStreamHandler,
\* bootstrapDHT; a failing step panics.
RunSetup(n, setupOk) ==
    /\ ~crashed[n]
    /\ run[n] = "idle"
    /\ IF setupOk
       THEN /\ run' = [run EXCEPT ![n] = "getPeerAddresses"]
            /\ UNCHANGED <<crashed, panicAt>>
       ELSE /\ crashed' = [crashed EXCEPT ![n] = TRUE]
            /\ panicAt' = [panicAt EXCEPT ![n] = "Run"]
            /\ UNCHANGED run
    /\ UNCHANGED <<peerChan, discovered, bcast, streams, readers, registry, tookSelf>>
    /\ UNCHANGED <<clock, storage, created, onlyCreates, last>>
    /\ UNCHANGED auxVars

\* One iteration of getPeerAddresses' loop: wg.Add(1) and a goroutine that
\* connects to seed s.
SpawnConnect(n, s) ==
    /\ ~crashed[n]
    /\ run[n] = "getPeerAddresses"
    /\ seeds[n][s].started = 0
    /\ seeds' = [seeds EXCEPT ![n][s].started = @ + 1]
    /\ UNCHANGED <<sigCheck, tasks>>
    /\ UNCHANGED <<svcVars, netVars>>

\* The goroutine for seed s ends: host.Connect returned, its error, if any, is
\* printed, and the deferred wg.Done() runs.
ConnectDone(n, s, connectOk) ==
    /\ ~crashed[n]
    /\ seeds[n][s].started > 0 /\ seeds[n][s].result = ""
    /\ seeds' = [seeds EXCEPT ![n][s].result = IF connectOk THEN "connected" ELSE "failed"]
    /\ UNCHANGED <<sigCheck, tasks>>
    /\ UNCHANGED <<svcVars, netVars>>

\* A mutant of WaitGroupDone: wg.Wait() returns at once.
WaitGroupNoWait(n) == TRUE

\* wg.Wait() returns: the counter is zero, every started goroutine has called
\* wg.Done().
WaitGroupDone(n) ==
    \A s \in BootstrapPeers : seeds[n][s].started > 0 => seeds[n][s].result # ""

\* getPeerAddresses returns: the loop is over and wg.Wait() has returned; Run
\* creates the routing discovery.
GetPeerAddressesEnd(n) ==
    /\ ~crashed[n]
    /\ run[n] = "getPeerAddresses"
    /\ \A s \in BootstrapPeers : seeds[n][s].started > 0
    /\ WaitGroupDone(n)
    /\ run' = [run EXCEPT ![n] = "advertise"]
    /\ UNCHANGED <<peerChan, discovered, bcast, streams, readers, registry, tookSelf>>
    /\ UNCHANGED svcVars
    /\ UNCHANGED auxVars

\* advertise: the node announces itself under the rendezvous tag.
Advertise(n) ==
    /\ ~crashed[n]
    /\ run[n] = "advertise"
    /\ run' = [run EXCEPT ![n] = "findPeers"]
    /\ UNCHANGED <<peerChan, discovered, bcast, streams, readers, registry, tookSelf>>
    /\ UNCHANGED svcVars
    /\ UNCHANGED auxVars

\* findPeers: the peer search starts and p2p.peerChan is its channel; a
\* failing search panics.
FindPeers(n, findOk) ==
    /\ ~crashed[n]
    /\ run[n] = "findPeers"
    /\ IF findOk
       THEN /\ run' = [run EXCEPT ![n] = "listenPeers"]
            /\ peerChan' = [peerChan EXCEPT ![n] = [made |-> TRUE, closed |-> FALSE, buf |-> <<>>]]
            /\ UNCHANGED <<crashed, panicAt>>
       ELSE /\ crashed' = [crashed EXCEPT ![n] = TRUE]
            /\ panicAt' = [panicAt EXCEPT ![n] = "Run"]
            /\ UNCHANGED <<run, peerChan>>
    /\ UNCHANGED <<discovered, bcast, streams, readers, registry, tookSelf>>
    /\ UNCHANGED <<clock, storage, created, onlyCreates, last>>
    /\ UNCHANGED auxVars

BootNext ==
    \/ \E n \in Node, setupOk \in BOOLEAN : RunSetup(n, setupOk)
    \/ \E n \in Node, s \in BootstrapPeers : SpawnConnect(n, s)
    \/ \E n \in Node, s \in BootstrapPeers, connectOk \in BOOLEAN : ConnectDone(n, s, connectOk)
    \/ \E n \in Node : GetPeerAddressesEnd(n)
    \/ \E n \in Node : Advertise(n)
    \/ \E n \in Node, findOk \in BOOLEAN : FindPeers(n, findOk)
    \/ \E n \in Clients, p \in Node : Discover(n, p)
    \/ \E n \in Clients : CloseDiscovery(n)
    \/ \E n \in Clients, openOk \in BOOLEAN : ListenPeers(n, openOk)
    \/ \E n \in Clients : ListenPeersEnd(n)

BootSpec == Init /\ [][BootNext]_vars

\* ------------------------------------------------------- sign and verify

\* The orders a node signs: the sample order in either state.
OrdersToSign == {SampleOrder(OPEN), SampleOrder(LOCKED)}

\* The values a field of an order can be set to after signing.
FieldValues(f) ==
    CASE f = "id" -> {SampleOrder(OPEN).id, UnknownId}
      [] f = "state" -> {OPEN, LOCKED}
      [] f = "asset" -> {"ETH", "BTC"}
      [] f = "counterAsset" -> {"ETH", "BTC"}
      [] f = "amount" -> {1, 2}
      [] f = "price" -> {1, 2}

\* The fields the spec names as signed: id, state and the economic terms.
SignedFields == {"id", "state", "asset", "counterAsset", "amount", "price"}

\* sig := orderService.GetSignature(order); order.Signature = sig, on node n.
SignOrder(n, o) ==
    /\ sigCheck.signer = ""
    /\ sigCheck' = [NoSigCheck EXCEPT !.signer = n, !.original = SignedBy(n, o),
                                      !.order = SignedBy(n, o)]
    /\ UNCHANGED <<svcVars, netVars, tasks, seeds>>

\* order.<field> = v after the signature was computed.
ChangeField(f, v) ==
    /\ sigCheck.signer # ""
    /\ sigCheck.order[f] # v
    /\ sigCheck' = [sigCheck EXCEPT !.order[f] = v, !.pub = "", !.verdict = "none"]
    /\ UNCHANGED <<svcVars, netVars, tasks, seeds>>

\* success := orderService.VerifyOrder(publicKey, order) with the key of node k.
VerifyStep(k) ==
    /\ sigCheck.signer # ""
    /\ sigCheck' = [sigCheck EXCEPT
                       !.pub = k,
                       !.verdict = IF VerifyOrder(PublicKey(k), sigCheck.order)
                                   THEN "true" ELSE "false"]
    /\ UNCHANGED <<svcVars, netVars, tasks, seeds>>

SignNext ==
    \/ \E n \in Node, o \in OrdersToSign : SignOrder(n, o)
    \/ \E f \in SignedFields : \E v \in FieldValues(f) : ChangeField(f, v)
    \/ \E k \in Node : VerifyStep(k)

SignSpec == Init /\ [][SignNext]_vars

\* ------------------------------------------------------------------- claims

\* The orders store s holds for an id, under whatever key.
PersistedOrders(s, id) ==
    {o \in {Unmarshal(s[k]) : k \in {x \in DOMAIN s : IsEncoding(s[x])}} : o.id = id}

\* C1: a successful Create followed immediately by GetOrder with the returned
\* order's id and the request's channel returns an order equal to the one
\* Create returned.
C1_CreateThenGetOrder ==
    (last.op = "Create" /\ last.res = Ok) =>
        LET r == GetOrderOn(storage[last.node], last.channel, last.id)
        IN r.res = Ok /\ r.out = last.out

\* C2: from an empty store, after N successful Create calls on one channel
\* GetAllOrders for that channel returns exactly N orders with pairwise
\* distinct ids, all in state OPEN.
C2_GetAllAfterCreates ==
    (/\ last.op = "GetAllOrders"
     /\ onlyCreates[last.node]
     /\ \A i \in 1..Len(created[last.node]) :
            created[last.node][i].req.channelID = last.channel) =>
        LET r == GetAllOrdersOn(storage[last.node], last.channel)
        IN /\ Cardinality(DOMAIN r) = Len(created[last.node])
           /\ Cardinality({r[k].id : k \in DOMAIN r}) = Len(created[last.node])
           /\ \A k \in DOMAIN r : r[k].state = OPEN

\* C4: Receive is idempotent: after Receive has applied an encoded CREATE
\* message, applying the same bytes again leaves the store as it is.
C4_ReceiveIdempotent ==
    (/\ last.op = "Receive"
     /\ IsEncoding(last.arg)
     /\ last.arg.operation = "CREATE") =>
        ReceiveOn(storage[last.node], last.arg, last.origin).store = storage[last.node]

\* C4's case: a CREATE message was verified and stored.
C4_Witness ==
    /\ last.op = "Receive"
    /\ IsEncoding(last.arg)
    /\ last.arg.operation = "CREATE"
    /\ last.res = Ok
    /\ storage[last.node] # last.before

\* C6: after Lock returns success for an OPEN order created by this node, the
\* persisted order has state LOCKED and a non-empty signature (stated of the
\* persisted record itself, whichever key it is stored under).
C6_LockPersistsLocked ==
    (/\ last.op = "Lock"
     /\ last.res = Ok
     /\ last.id \in CreatedIds(last.node)
     /\ \E o \in PersistedOrders(last.before, last.id) : o.state = OPEN) =>
        \E o \in PersistedOrders(storage[last.node], last.id) :
            o.state = LOCKED /\ o.signature # <<>>

C8_LockOnlyOwnOrders ==
    (/\ last.op \in {"Lock", "Unlock"}
     /\ last.id \notin CreatedIds(last.node)) =>
        /\ last.res # Ok
        /\ storage[last.node] = last.before

\* C9: Delete with an id that is not in local storage fails with NotFoundError
\* and leaves storage unchanged; Delete with a present id removes it, so that
\* GetOrder for that id returns NotFoundError.
C9_DeleteAbsentFails ==
    (last.op = "Delete" /\ last.res # Panic) =>
        IF PersistedOrders(last.before, last.id) = {}
        THEN last.res = NotFoundError /\ storage[last.node] = last.before
        ELSE /\ last.res = Ok
             /\ \A c \in Channels :
                    GetOrderOn(storage[last.node], c, last.id).res = NotFoundError

\* C10: the id Create computes depends only on (request, timestamp): the same
\* request and timestamp give the same id, different timestamps give different
\* ids, and a Create at another instant does not overwrite a stored record.
C10_IdFromRequestAndTimestamp ==
    \A n \in Node :
        /\ \A i, j \in 1..Len(created[n]) :
               LET a == created[n][i]
                   b == created[n][j]
               IN /\ (a.req = b.req /\ a.now = b.now) => a.id = b.id
                  /\ a.now # b.now => a.id # b.id
        /\ onlyCreates[n] =>
               \A i \in 1..Len(created[n]) :
                   LET a == created[n][i]
                   IN /\ Has(storage[n], CreateKey(a.req, a.id))
                      /\ Unmarshal(storage[n][CreateKey(a.req, a.id)]).created = a.now

\* C10's case: the same request was created at two different instants.
C10_Witness ==
    \E n \in Node : \E i, j \in 1..Len(created[n]) :
        /\ created[n][i].req = created[n][j].req
        /\ created[n][i].now # created[n][j].now
        /\ onlyCreates[n]

\* A and B run and A holds an open stream to B.
Connected(a, b) ==
    /\ run[a] # "idle" /\ run[b] # "idle"
    /\ \E i \in 1..Len(streams) :
          streams[i].from = a /\ streams[i].to = b /\ streams[i].state = "open"

\* C3: with A and B running and A connected to B, after a Create succeeds on
\* A, B eventually holds the order: GetOrder on B with the id Create returned
\* finds it.
C3_CreatedOrderReachesPeer ==
    \A in \in CreateRequests, t \in 0..MaxTime :
        (OrderId(in, TimestampNow(t)) \in CreatedIds("A") /\ Connected("A", "B"))
            ~> (GetOrderOn(storage["B"], in.channelID, OrderId(in, TimestampNow(t))).res = Ok)

\* C5: a node never opens an outgoing stream to its own peer identity, on any
\* sending path.
C5_NoStreamToSelf ==
    \A i \in 1..Len(streams) : streams[i].from # streams[i].to

\* C5, amended: on the broadcast path (sendToPeers) and in the discovery loop
\* (listenPeers) a node never opens a stream to, or writes to, its own peer
\* identity, even when discovery yields it.
C5_LoopsSkipSelf ==
    \A i \in 1..Len(streams) :
        streams[i].via \in {"sendToPeers", "listenPeers"} => streams[i].from # streams[i].to

\* C5's case: a loop of A has taken A's own identity from discovery, and a
\* loop of A has opened a stream.
C5_Witness ==
    /\ tookSelf["A"] # {}
    /\ \E i \in 1..Len(streams) :
          streams[i].from = "A" /\ streams[i].via \in {"sendToPeers", "listenPeers"}

\* C14: when the storage Put fails during Create, or the storage Delete during
\* Delete, the operation returns an explicit failure to its caller, reports no
\* created order, and the node keeps serving.
C14_StorageFailureReturned ==
    (last.op \in {"Create", "Delete"} /\ ~last.storageOk) =>
        /\ last.res = StorageError
        /\ last.out = {}
        /\ ~crashed[last.node]

\* C12: a read error in the read loop of one stream ends that loop only: it
\* does not end the process.
C12_ReadErrorEndsOnlyItsLoop ==
    \A n \in Node : panicAt[n] # "readData"

\* C13: during a broadcast a failure to write or flush to one peer is
\* contained: no fault escapes sendToPeers.
C13_SendFailureContained ==
    \A n \in Node : panicAt[n] # "writeData"

\* The read loop that serves stream i at its accepting end.
Served(i) ==
    \E r \in readers : r.stream = i /\ r.node = streams[i].to /\ r.side = "acceptor"

\* C15: a frame that fails signature verification is discarded and the
\* stream stays served: while the stream is open and the node is up, its read
\* loop is still running after the failure.
C15_VerificationFailureKeepsStream ==
    \A i \in 1..Len(streams) :
        (/\ streams[i].lastResult = VerificationError
         /\ streams[i].state = "open"
         /\ ~crashed[streams[i].to]) => Served(i)

\* listenPeers on n has taken p from the discovered-peer sequence and holds
\* an open stream to it; p is up.
TakenByListenPeers(n, p) ==
    /\ CanAccept(p)
    /\ \E j \in 1..Len(streams) :
          /\ streams[j].from = n /\ streams[j].to = p
          /\ streams[j].via = "listenPeers" /\ streams[j].state = "open"

\* C18: when a broadcast has gone through the whole discovered-peer sequence,
\* it has been written to every reachable peer, the peers that listenPeers
\* took from the sequence and connected to included.
C18_BroadcastReachesConnectedPeers ==
    \A n \in Node :
        (bcast[n].active /\ peerChan[n].closed /\ peerChan[n].buf = <<>>) =>
            \A p \in Node \ {n} :
                TakenByListenPeers(n, p) =>
                    \E i \in 1..Len(streams) :
                        /\ streams[i].from = n /\ streams[i].to = p
                        /\ streams[i].via = "sendToPeers"

\* The signed fields in which the order differs from the order that was signed.
ChangedFields ==
    {f \in SignedFields : sigCheck.order[f] # sigCheck.original[f]}

C11_CloseAbsentDoesNotFault ==
    \A n \in Node : panicAt[n] # "CloseStream"

\* The streams a task holds between host.NewStream and the map write.
InFlight == {tasks[t].stream : t \in {u \in Tasks : tasks[u].pc \in {"insert", "inserting"}}}

\* C17: a node holds at most one open stream per peer: every open stream of n
\* to p that OpenStream has finished with is the one the registry holds for p.
C17_OneStreamPerPeer ==
    \A i \in 1..Len(streams) :
        (streams[i].state = "open" /\ i \notin InFlight) =>
            /\ Has(registry[streams[i].from], streams[i].to)
            /\ registry[streams[i].from][streams[i].to] = i

\* C19: no two tasks are inside a write of the peer-to-stream map at the same
\* time.
C19_MapWritesExclusive ==
    \A t, u \in Tasks : (Writing(t) /\ Writing(u)) => t = u

\* C20: closing a stream and removing it from the registry are atomic: the
\* registry never holds a stream that has been closed.
C20_NoClosedStreamInRegistry ==
    \A n \in Node : \A p \in DOMAIN registry[n] :
        streams[registry[n][p]].state # "closed"

\* C23: every order Create has persisted is stored under the order prefix,
\* then the channel, then the id; so a prefix query for a channel yields every
\* order created on it and none of another channel, and a prefix delete on the
\* order prefix removes all of them.
C23_CreateStoresUnderOrderKey ==
    \A n \in Node : onlyCreates[n] =>
        /\ \A i \in 1..Len(created[n]) :
               LET k == getOrderStorageKey(created[n][i].req.channelID, created[n][i].id)
               IN /\ Has(storage[n], k)
                  /\ IsEncoding(storage[n][k])
                  /\ Unmarshal(storage[n][k]).id = created[n][i].id
        /\ DOMAIN storage[n] = ScanPrefix(storage[n], <<OrderPrefix>>)

C25_FailedOpenLeavesRegistry ==
    \A t \in Tasks :
        (tasks[t].op = "OpenStream" /\ tasks[t].err) =>
            tasks[t].mapAfter = tasks[t].mapBefore

\* An OpenStream call has failed for a peer that had a registered stream.
C25_Witness ==
    \E t \in Tasks :
        /\ tasks[t].op = "OpenStream" /\ tasks[t].err
        /\ Has(tasks[t].mapBefore, tasks[t].peer)
        /\ Has(tasks[t].mapAfter, tasks[t].peer)

\* C21: Run starts one connect attempt per configured seed peer, a failed
\* attempt ends no process, and Run is at advertise or beyond, or has opened
\* a stream in listenPeers, only when every seed's attempt has finished, with
\* success or with failure.
C21_SeedConnectsBeforeAdvertise ==
    \A n \in Node :
        /\ \A s \in BootstrapPeers : seeds[n][s].started <= 1
        /\ (\E s \in BootstrapPeers : seeds[n][s].result = "failed") =>
               /\ crashed[n] => (panicAt[n] = "Run" /\ run[n] = "findPeers")
               /\ (/\ ~crashed[n]
                   /\ run[n] = "getPeerAddresses"
                   /\ \A s \in BootstrapPeers : seeds[n][s].result # "") =>
                      ENABLED GetPeerAddressesEnd(n)
        /\ (\/ run[n] \in PastSeedConnects
            \/ \E i \in 1..Len(streams) : streams[i].from = n /\ streams[i].via = "listenPeers") =>
               \A s \in BootstrapPeers :
                   seeds[n][s].started = 1 /\ seeds[n][s].result \in {"connected", "failed"}

\* A's connect to one seed failed, its connect to the other succeeded, and A
\* has advertised and opened a stream to a discovered peer.
C21_Witness ==
    /\ seeds["A"]["s1"].result = "failed"
    /\ seeds["A"]["s2"].result = "connected"
    /\ run["A"] \in {"listenPeers", "select"}
    /\ \E i \in 1..Len(streams) : streams[i].from = "A" /\ streams[i].via = "listenPeers"

\* The frames a sequence of writes makes: each ends with a write that closes
\* with the delimiter and holds the bodies written since the frame before.
RECURSIVE SentFrames(_, _)
SentFrames(writes, open) ==
    IF writes = <<>> THEN <<>>
    ELSE IF Head(writes).nl
         THEN <<Append(open, Head(writes).body)>> \o SentFrames(Tail(writes), <<>>)
         ELSE SentFrames(Tail(writes), Append(open, Head(writes).body))

\* The bytes of each frame: those of its one write, or the undecodable run of
\* several.
FrameBytes(frames) ==
    [k \in 1..Len(frames) |-> IF Len(frames[k]) = 1 THEN frames[k][1] ELSE Garbage]

\* C22: on a stream P2p.handleStream has accepted, what the receiver has been
\* given is, frame for frame and in order, a prefix of the frames sent on the
\* stream; and while the read loop runs on the open stream, the frames given
\* followed by the frames still unread are exactly the frames sent: none is
\* skipped, duplicated or reordered.
C22_FramesForwardedInOrder ==
    \A i \in 1..Len(streams) :
        streams[i].handler = "P2p.handleStream" =>
            LET sent == FrameBytes(SentFrames(streams[i].sent, <<>>))
                unread == FrameBytes(SentFrames(streams[i].data, <<>>))
                given == streams[i].delivered
            IN /\ Len(given) <= Len(sent)
               /\ given = SubSeq(sent, 1, Len(given))
               /\ (Served(i) /\ streams[i].state = "open") => given \o unread = sent

\* Two different frames were sent on one stream and the receiver has been
\* given both.
C22_Witness ==
    \E i \in 1..Len(streams) :
        /\ streams[i].handler = "P2p.handleStream"
        /\ Len(streams[i].delivered) = 2
        /\ streams[i].delivered[1] # streams[i].delivered[2]

====
